---- MODULE Spec2Model ----
(***************************************************************************)
(* Model of gdown's command-line interface (src/gdown/__main__.py):        *)
(*   - file_size, the parser of the --speed argument;                      *)
(*   - main, from argument parsing to the process exit status;             *)
(* and of the two operations main calls, download and download_folder, as  *)
(* the design describes them: the confirmation negotiation of one resource *)
(* and the traversal of one folder.                                        *)
(* Strings are sequences of one-character strings, so that the regular     *)
(* expressions of the source are matched character by character.           *)
(***************************************************************************)
EXTENDS Integers, Sequences, FiniteSets, TLC

VARIABLES
    argv,       \* file_size: the argument (a string, or None)
    fsPc,       \* file_size: "call" before the call, "done" after, "idle" elsewhere
    fsOut,      \* file_size: [kind |-> "return", value |-> ...] or [kind |-> "raise", cls |-> ...]
    cli,        \* main: the command line, option by option
    args,       \* main: the namespace parse_args() returned
    pc,         \* main: "parse", "classify", "transfer", "except", "done"; "idle" elsewhere
    url,        \* main: the local url
    id,         \* main: the local id
    warned,     \* main: the categories of the warnings issued
    calls,      \* main: the transfer operations invoked, with their keyword arguments
    outcome,    \* main: how the transfer operation ended
    handlers,   \* main: the except clauses that ran (their positions)
    stdout,     \* main: what was printed on standard output
    stderr,     \* main: what was printed on standard error
    sysExit,    \* main: the statuses the process was asked to exit with
    escaped,    \* main: the class of the exception that left main, "" if none
    neg,        \* confirmation negotiation of one resource
    trav        \* traversal of one folder

fsVars == <<argv, fsPc, fsOut>>

mainVars == <<cli, args, pc, url, id, warned, calls, outcome, handlers, stdout, stderr,
              sysExit, escaped>>

vars == <<fsVars, mainVars, neg, trav>>

\* Python's None, as a string, as a match object and as a number
None == <<"None">>
NoMatch == [none |-> TRUE]
NoValue == [none |-> TRUE]

(***************************************************************************)
(* Bounds                                                                  *)
(***************************************************************************)
\* longest string handed to file_size
MaxLen == 4

(***************************************************************************)
(* Strings                                                                 *)
(***************************************************************************)
Digits == {"0", "1", "7"}

\* the characters file_size is tried on: digits, unit letters, a sign, a space
Alphabet == Digits \cup {"B", "K", "M", "G", "-", " "}

RECURSIVE StringsUpTo(_)
StringsUpTo(n) ==
    IF n = 0 THEN {<< >>}
    ELSE LET shorter == StringsUpTo(n - 1)
         IN  shorter \cup {Append(s, c) : s \in {t \in shorter : Len(t) = n - 1}, c \in Alphabet}

\* s[pos..] starts with the literal lit
MatchLit(s, pos, lit) ==
    /\ pos + Len(lit) - 1 <= Len(s)
    /\ \A i \in 1..Len(lit) : s[pos + i - 1] = lit[i]

DigitValue(c) == CASE c = "0" -> 0 [] c = "1" -> 1 [] c = "7" -> 7

(***************************************************************************)
(* Python floats: mant * 2^exp with mant odd (or zero), which is exact for *)
(* every integer below 2^53 and for its product with a power of two; the   *)
(* digit strings tried stay below 2^53.                                    *)
(***************************************************************************)
RECURSIVE Normalize(_, _)
Normalize(m, e) ==
    IF m = 0 THEN [mant |-> 0, exp |-> 0]
    ELSE IF m % 2 = 0 THEN Normalize(m \div 2, e + 1)
    ELSE [mant |-> m, exp |-> e]

\* float(size) of a string of decimal digits
RECURSIVE DecimalValue(_)
DecimalValue(ds) ==
    IF Len(ds) = 0 THEN 0
    ELSE 10 * DecimalValue(SubSeq(ds, 1, Len(ds) - 1)) + DigitValue(ds[Len(ds)])

FloatOfDigits(ds) == Normalize(DecimalValue(ds), 0)

\* size *= k, for a positive integer k
FloatTimes(x, k) ==
    LET f == Normalize(k, 0)
    IN  Normalize(x.mant * f.mant, x.exp + f.exp)

(***************************************************************************)
(* file_size                                                               *)
(***************************************************************************)
\* the alternation (GB|MB|KB|B), tried in this order
UnitAlternatives == << <<"G", "B">>, <<"M", "B">>, <<"K", "B">>, <<"B">> >>

\* the length of the run of [0-9] that starts at s[1]
RECURSIVE DigitRun(_, _)
DigitRun(s, n) ==
    IF n < Len(s) /\ s[n + 1] \in Digits THEN DigitRun(s, n + 1) ELSE n

\* the first alternative that matches at s[pos..], 0 if none does
RECURSIVE FirstAlternative(_, _, _)
FirstAlternative(s, pos, k) ==
    IF k > Len(UnitAlternatives) THEN 0
    ELSE IF MatchLit(s, pos, UnitAlternatives[k]) THEN k
    ELSE FirstAlternative(s, pos, k + 1)

\* [0-9]+ is greedy and gives digits back one at a time while the rest fails
RECURSIVE MatchFrom(_, _)
MatchFrom(s, n) ==
    IF n < 1 THEN NoMatch
    ELSE LET k == FirstAlternative(s, n + 1, 1)
         IN  IF k # 0 THEN [size |-> SubSeq(s, 1, n), unit |-> UnitAlternatives[k]]
             ELSE MatchFrom(s, n - 1)

\* re.match(r"([0-9]+)(GB|MB|KB|B)", argv): anchored at the start only
ReMatchSize(s) == MatchFrom(s, DigitRun(s, 0))

\* decimal multiples in place of binary ones
UnitFactorDecimal(unit) ==
    CASE unit = <<"K", "B">> -> 1000
      [] unit = <<"M", "B">> -> 1000 * 1000
      [] unit = <<"G", "B">> -> 1000 * 1000 * 1000
      [] unit = <<"B">> -> 1

UnitFactor(unit) ==
    CASE unit = <<"K", "B">> -> 1024
      [] unit = <<"M", "B">> -> 1024 * 1024
      [] unit = <<"G", "B">> -> 1024 * 1024 * 1024
      [] unit = <<"B">> -> 1

file_size(a) ==
    IF a = None THEN [kind |-> "return", value |-> NoValue]
    ELSE LET m == ReMatchSize(a)
         IN  IF m = NoMatch THEN [kind |-> "raise", cls |-> "TypeError"]
             ELSE [kind |-> "return",
                   value |-> FloatTimes(FloatOfDigits(m.size), UnitFactor(m.unit))]

FsIdle ==
    /\ argv = None
    /\ fsPc = "idle"
    /\ fsOut = [kind |-> "none"]

NegIdle == neg = [state |-> "idle"]

TravIdle == trav = [state |-> "idle"]

MainIdle ==
    /\ cli = [none |-> TRUE]
    /\ args = [none |-> TRUE]
    /\ pc = "idle"
    /\ url = None
    /\ id = None
    /\ warned = << >>
    /\ calls = << >>
    /\ outcome = [kind |-> "none"]
    /\ handlers = << >>
    /\ stdout = << >>
    /\ stderr = << >>
    /\ sysExit = << >>
    /\ escaped = ""

FsInit ==
    /\ argv \in StringsUpTo(MaxLen) \cup {None}
    /\ fsPc = "call"
    /\ fsOut = [kind |-> "none"]
    /\ MainIdle
    /\ NegIdle
    /\ TravIdle

FileSizeCall ==
    /\ fsPc = "call"
    /\ fsOut' = file_size(argv)
    /\ fsPc' = "done"
    /\ UNCHANGED <<argv, mainVars, neg, trav>>

SpecFileSize == FsInit /\ [][FileSizeCall]_vars

(***************************************************************************)
(* main: the command lines tried                                           *)
(***************************************************************************)
Http == <<"h", "t", "t", "p">>
ColonSlashSlash == <<":", "/", "/">>

Targets ==
    { Http \o ColonSlashSlash \o <<"a">>,
      Http \o <<"s">> \o ColonSlashSlash \o <<"a">>,
      <<"a", "b", "c">> }

Schemes ==
    { << >>, Http, Http \o <<"s">>, Http \o <<"s", "s">>, <<"H", "T", "T", "P">>,
      <<"h", "t", "p">>, <<"x">> \o Http, <<" ">> \o Http, <<"f", "t", "p">> }
Separators == { << >>, ColonSlashSlash, <<":", "/">>, <<"/", "/">>, <<":">>, <<"s">> \o ColonSlashSlash }
Rests == { << >>, <<"a">>, <<"a", "/", "b">>, Http \o ColonSlashSlash \o <<"a">> }
WideTargets == { sch \o sep \o rest : sch \in Schemes, sep \in Separators, rest \in Rests }

Outputs == {None, <<"-">>, <<"out">>}
Proxies == {None, <<"proxy:8080">>}
SpeedArgs == {None, <<"1", "K", "B">>, <<"K", "B">>}
Formats == {None, <<"pdf">>}
UserAgents == {None, <<"agent">>}
Messages == {"reason"}

StdoutBuffer == <<"sys.stdout.buffer">>

(***************************************************************************)
(* main: argument parsing                                                  *)
(***************************************************************************)
\* the namespace of a command line whose --speed value file_size accepted
Namespace(c) ==
    [url_or_id |-> c.url_or_id, output |-> c.output, quiet |-> c.quiet, fuzzy |-> c.fuzzy,
     id |-> c.id, proxy |-> c.proxy, speed |-> file_size(c.speed).value,
     no_cookies |-> c.no_cookies, no_check_certificate |-> c.no_check_certificate,
     continue_ |-> c.continue_, folder |-> c.folder, remaining_ok |-> c.remaining_ok,
     format |-> c.format, user_agent |-> c.user_agent]

\* -V: _ShowVersionAction prints the version and leaves through parser.exit()
ShowVersion ==
    /\ pc = "parse"
    /\ cli.version
    /\ stdout' = Append(stdout, "gdown version at directory")
    /\ sysExit' = Append(sysExit, 0)
    /\ pc' = "done"
    /\ UNCHANGED <<fsVars, neg, trav, cli, args, url, id, warned, calls, outcome, handlers, stderr, escaped>>

\* type=file_size raised TypeError: the parser reports the value and exits with 2
ArgError ==
    /\ pc = "parse"
    /\ file_size(cli.speed).kind = "raise"
    /\ stderr' = Append(stderr, [head |-> "usage", text |-> "invalid file_size value",
                                 wrapped |-> FALSE, tail |-> ""])
    /\ sysExit' = Append(sysExit, 2)
    /\ pc' = "done"
    /\ UNCHANGED <<fsVars, neg, trav, cli, args, url, id, warned, calls, outcome, handlers, stdout, escaped>>

ParseArgs ==
    /\ pc = "parse"
    /\ ~cli.version
    /\ file_size(cli.speed).kind = "return"
    /\ args' = Namespace(cli)
    /\ pc' = "classify"
    /\ UNCHANGED <<fsVars, neg, trav, cli, url, id, warned, calls, outcome, handlers, stdout, stderr,
                   sysExit, escaped>>

(***************************************************************************)
(* main: url or id                                                         *)
(***************************************************************************)
\* re.match("^https?://.*", s): "s" is taken if it is there and given back if the
\* rest then fails; ".*" matches whatever follows
ReMatchUrl(s) ==
    /\ MatchLit(s, 1, Http)
    /\ \/ MatchLit(s, 5, <<"s">>) /\ MatchLit(s, 6, ColonSlashSlash)
       \/ MatchLit(s, 5, ColonSlashSlash)

\* the shape of the argument looked at before the --id flag
ClassificationUrlFirst(a) ==
    IF ReMatchUrl(a.url_or_id) THEN [url |-> a.url_or_id, id |-> None]
    ELSE [url |-> None, id |-> a.url_or_id]

Classification(a) ==
    IF a.id THEN [url |-> None, id |-> a.url_or_id]
    ELSE IF ReMatchUrl(a.url_or_id) THEN [url |-> a.url_or_id, id |-> None]
    ELSE [url |-> None, id |-> a.url_or_id]

Classify ==
    /\ pc = "classify"
    /\ args' = [args EXCEPT !.output = IF @ = <<"-">> THEN StdoutBuffer ELSE @]
    /\ warned' = IF args.id THEN Append(warned, "FutureWarning") ELSE warned
    /\ url' = Classification(args).url
    /\ id' = Classification(args).id
    /\ pc' = "transfer"
    /\ UNCHANGED <<fsVars, neg, trav, cli, calls, outcome, handlers, stdout, stderr, sysExit, escaped>>

(***************************************************************************)
(* main: the transfer                                                      *)
(***************************************************************************)
\* the export format passed on to download_folder too
FolderKwargsWithFormat(a, u, i) ==
    [url |-> u, id |-> i, output |-> a.output, quiet |-> a.quiet, proxy |-> a.proxy,
     speed |-> a.speed, use_cookies |-> ~a.no_cookies, verify |-> ~a.no_check_certificate,
     remaining_ok |-> a.remaining_ok, user_agent |-> a.user_agent, resume |-> a.continue_,
     format |-> a.format]

FolderKwargs(a, u, i) ==
    [url |-> u, id |-> i, output |-> a.output, quiet |-> a.quiet, proxy |-> a.proxy,
     speed |-> a.speed, use_cookies |-> ~a.no_cookies, verify |-> ~a.no_check_certificate,
     remaining_ok |-> a.remaining_ok, user_agent |-> a.user_agent, resume |-> a.continue_]

DownloadKwargs(a, u, i) ==
    [url |-> u, output |-> a.output, quiet |-> a.quiet, proxy |-> a.proxy,
     speed |-> a.speed, use_cookies |-> ~a.no_cookies, verify |-> ~a.no_check_certificate,
     id |-> i, fuzzy |-> a.fuzzy, resume |-> a.continue_, format |-> a.format,
     user_agent |-> a.user_agent]

\* a url always fetched as a single file
TransferCallUrlAsFile(a, u, i) ==
    IF a.folder /\ u = None
    THEN [fn |-> "download_folder", kwargs |-> FolderKwargs(a, u, i)]
    ELSE [fn |-> "download", kwargs |-> DownloadKwargs(a, u, i)]

TransferCall(a, u, i) ==
    IF a.folder THEN [fn |-> "download_folder", kwargs |-> FolderKwargs(a, u, i)]
    ELSE [fn |-> "download", kwargs |-> DownloadKwargs(a, u, i)]

\* the classes an exception is an instance of, its own first
Superclasses(cls) ==
    CASE cls = "FileURLRetrievalError" -> <<cls, "Exception", "BaseException">>
      [] cls = "FolderContentsMaximumLimitError" -> <<cls, "Exception", "BaseException">>
      [] cls = "ProxyError" ->
            <<cls, "ConnectionError", "RequestException", "OSError", "Exception", "BaseException">>
      [] cls = "ConnectionError" ->
            <<cls, "RequestException", "OSError", "Exception", "BaseException">>
      [] cls = "RuntimeError" -> <<cls, "Exception", "BaseException">>
      [] cls = "KeyboardInterrupt" -> <<cls, "BaseException">>

IsInstance(cls, of) == \E k \in 1..Len(Superclasses(cls)) : Superclasses(cls)[k] = of

\* what the operation called may raise; only a folder can hold too many entries,
\* and --remaining-ok makes download_folder ignore that
Raisable(call) ==
    {"FileURLRetrievalError", "ProxyError", "ConnectionError", "RuntimeError", "KeyboardInterrupt"}
    \cup (IF call.fn = "download_folder" /\ ~call.kwargs.remaining_ok
          THEN {"FolderContentsMaximumLimitError"} ELSE {})

Outcomes(call) ==
    {[kind |-> "return", cls |-> "", msg |-> ""]}
    \cup {[kind |-> "raise", cls |-> c, msg |-> m] : c \in Raisable(call), m \in Messages}

Transfer ==
    /\ pc = "transfer"
    /\ LET call == TransferCall(args, url, id)
       IN  /\ calls' = Append(calls, call)
           /\ \E o \in Outcomes(call) :
                /\ outcome' = o
                /\ pc' = IF o.kind = "return" THEN "done" ELSE "except"
    /\ UNCHANGED <<fsVars, neg, trav, cli, args, url, id, warned, handlers, stdout, stderr, sysExit, escaped>>

(***************************************************************************)
(* main: the except clauses                                                *)
(***************************************************************************)
\* the clause for Exception written before the clause for ProxyError
ExceptClausesBroadFirst ==
    << [catches |-> "FileURLRetrievalError", head |-> "", wrapped |-> FALSE, tail |-> "",
        status |-> 1],
       [catches |-> "FolderContentsMaximumLimitError",
        head |-> "Failed to retrieve folder contents:", wrapped |-> TRUE,
        tail |-> "You can use --remaining-ok option to ignore this error.", status |-> 1],
       [catches |-> "Exception", head |-> "Error:", wrapped |-> TRUE,
        tail |-> "To report issues, please visit https://github.com/wkentaro/gdown/issues.",
        status |-> 1],
       [catches |-> "ProxyError", head |-> "Failed to use proxy:", wrapped |-> TRUE,
        tail |-> "Please check your proxy settings.", status |-> 1] >>

\* the except clauses of main, in the order written: the class caught, what is
\* printed around the text of the exception, and the status passed to sys.exit
ExceptClauses ==
    << [catches |-> "FileURLRetrievalError", head |-> "", wrapped |-> FALSE, tail |-> "",
        status |-> 1],
       [catches |-> "FolderContentsMaximumLimitError",
        head |-> "Failed to retrieve folder contents:", wrapped |-> TRUE,
        tail |-> "You can use --remaining-ok option to ignore this error.", status |-> 1],
       [catches |-> "ProxyError", head |-> "Failed to use proxy:", wrapped |-> TRUE,
        tail |-> "Please check your proxy settings.", status |-> 1],
       [catches |-> "Exception", head |-> "Error:", wrapped |-> TRUE,
        tail |-> "To report issues, please visit https://github.com/wkentaro/gdown/issues.",
        status |-> 1] >>

\* the first clause the exception is an instance of, 0 if there is none
RECURSIVE MatchingClause(_, _)
MatchingClause(cls, k) ==
    IF k > Len(ExceptClauses) THEN 0
    ELSE IF IsInstance(cls, ExceptClauses[k].catches) THEN k
    ELSE MatchingClause(cls, k + 1)

\* every clause printing the heading and the advice of the last one
ClauseMessageGeneric(k, text) ==
    [head |-> "Error:", text |-> text, wrapped |-> TRUE,
     tail |-> "To report issues, please visit https://github.com/wkentaro/gdown/issues."]

\* what clause k prints: print(e), or the text of e wrapped and indented between
\* a heading and an advice
ClauseMessage(k, text) ==
    [head |-> ExceptClauses[k].head, text |-> text, wrapped |-> ExceptClauses[k].wrapped,
     tail |-> ExceptClauses[k].tail]

\* the status clause k passes to sys.exit
ClauseExit(k) == ExceptClauses[k].status


\* a clause that prints and forgets to exit
HandleWithoutExit ==
    /\ pc = "except"
    /\ LET k == MatchingClause(outcome.cls, 1)
       IN  /\ k # 0
           /\ handlers' = Append(handlers, k)
           /\ stderr' = Append(stderr, ClauseMessage(k, outcome.msg))
    /\ pc' = "done"
    /\ UNCHANGED <<fsVars, neg, trav, cli, args, url, id, warned, calls, outcome, stdout,
                   sysExit, escaped>>

Handle ==
    /\ pc = "except"
    /\ LET k == MatchingClause(outcome.cls, 1)
       IN  /\ k # 0
           /\ handlers' = Append(handlers, k)
           /\ stderr' = Append(stderr, ClauseMessage(k, outcome.msg))
           /\ sysExit' = Append(sysExit, ClauseExit(k))
    /\ pc' = "done"
    /\ UNCHANGED <<fsVars, neg, trav, cli, args, url, id, warned, calls, outcome, stdout, escaped>>

\* no clause matches: the exception leaves main
Propagate ==
    /\ pc = "except"
    /\ MatchingClause(outcome.cls, 1) = 0
    /\ escaped' = outcome.cls
    /\ pc' = "done"
    /\ UNCHANGED <<fsVars, neg, trav, cli, args, url, id, warned, calls, outcome, handlers,
                   stdout, stderr, sysExit>>

MainStart ==
    /\ args = [none |-> TRUE]
    /\ pc = "parse"
    /\ url = None
    /\ id = None
    /\ warned = << >>
    /\ calls = << >>
    /\ outcome = [kind |-> "none"]
    /\ handlers = << >>
    /\ stdout = << >>
    /\ stderr = << >>
    /\ sysExit = << >>
    /\ escaped = ""

Init ==
    /\ FsIdle
    /\ NegIdle
    /\ TravIdle
    /\ cli \in [url_or_id : Targets, output : Outputs, quiet : BOOLEAN, fuzzy : BOOLEAN,
                id : BOOLEAN, proxy : Proxies, speed : SpeedArgs, no_cookies : BOOLEAN,
                no_check_certificate : BOOLEAN, continue_ : BOOLEAN, folder : BOOLEAN,
                remaining_ok : BOOLEAN, format : Formats, user_agent : UserAgents,
                version : BOOLEAN]
    /\ MainStart

\* many targets, the options that do not decide url or id left at their defaults
InitTargets ==
    /\ FsIdle
    /\ NegIdle
    /\ TravIdle
    /\ cli \in [url_or_id : WideTargets, output : {None}, quiet : {FALSE}, fuzzy : {FALSE},
                id : BOOLEAN, proxy : {None}, speed : SpeedArgs, no_cookies : {FALSE},
                no_check_certificate : {FALSE}, continue_ : {FALSE}, folder : BOOLEAN,
                remaining_ok : {FALSE}, format : {None}, user_agent : {None},
                version : BOOLEAN]
    /\ MainStart

Next ==
    \/ ShowVersion
    \/ ArgError
    \/ ParseArgs
    \/ Classify
    \/ Transfer
    \/ Handle
    \/ Propagate

Spec == Init /\ [][Next]_vars

SpecTargets == InitTargets /\ [][Next]_vars

(***************************************************************************)
(* Confirmation negotiation of one resource (download)                     *)
(***************************************************************************)
DocTypes == {"file", "document", "spreadsheet", "presentation"}

\* the export format of a native document when --format is not given
DefaultFormat(docType) ==
    CASE docType = "document" -> <<"docx">>
      [] docType = "spreadsheet" -> <<"xlsx">>
      [] docType = "presentation" -> <<"pptx">>
      [] docType = "file" -> None

\* what the service may answer: the headers, and what the page holds when it is one
Responses ==
    [disposition : BOOLEAN, contentType : {"text/html", "application/octet-stream"},
     page : {"form", "quota", "other"}, tokenVia : {"query", "cookie"}]

NoResponse == [none |-> TRUE]

\* no Content-Disposition and an HTML content type: a page, not the file
IsInterstitial(r) == ~r.disposition /\ r.contentType = "text/html"

\* the first request: the download endpoint, or the export endpoint of a document
DirectRequest(n) ==
    IF n.docType = "file"
    THEN [kind |-> "direct", endpoint |-> "download", format |-> None, tokenVia |-> "none"]
    ELSE [kind |-> "direct", endpoint |-> "export",
          format |-> IF n.desiredFormat = None THEN DefaultFormat(n.docType)
                     ELSE n.desiredFormat,
          tokenVia |-> "none"]

\* the request replayed against the action URL of the form, the token attached
ReplayRequest(n) ==
    [kind |-> "replay", endpoint |-> "action", format |-> None, tokenVia |-> n.tokenVia]

RECURSIVE CountReplays(_)
CountReplays(reqs) ==
    IF reqs = << >> THEN 0
    ELSE (IF Head(reqs).kind = "replay" THEN 1 ELSE 0) + CountReplays(Tail(reqs))

\* a second replay allowed
CanReplayTwice(n) == CountReplays(n.requests) <= 1

\* at most one replay is attempted
CanReplay(n) == CountReplays(n.requests) = 0

NegInit ==
    /\ FsIdle
    /\ MainIdle
    /\ TravIdle
    /\ neg \in [state : {"Initial"}, docType : DocTypes, desiredFormat : Formats,
                requests : {<< >>}, response : {NoResponse}, fresh : {FALSE},
                seen : {<< >>}, tokenVia : {"none"}, error : {""}, message : {""}]

\* step 1: the direct-download request
NegRequest ==
    /\ neg.state = "Initial"
    /\ neg.requests = << >>
    /\ \E r \in Responses :
         neg' = [neg EXCEPT !.requests = Append(@, DirectRequest(neg)),
                            !.response = r, !.fresh = TRUE]
    /\ UNCHANGED <<fsVars, mainVars, trav>>

\* steps 2, 3 and 5: the response is the file, or a page to parse
NegInspect ==
    /\ neg.state \in {"Initial", "InterstitialSeen"}
    /\ neg.fresh
    /\ LET r == neg.response
           n == [neg EXCEPT !.fresh = FALSE, !.seen = Append(@, r)]
       IN  neg' =
             IF ~IsInterstitial(r) THEN [n EXCEPT !.state = "Resolved"]
             ELSE IF r.page = "quota"
             THEN [n EXCEPT !.state = "Failed", !.error = "FileURLRetrievalError",
                            !.message = "quota exceeded"]
             ELSE IF r.page = "form" /\ CanReplay(neg)
             THEN [n EXCEPT !.state = "InterstitialSeen", !.tokenVia = r.tokenVia]
             ELSE [n EXCEPT !.state = "Failed", !.error = "FileURLRetrievalError",
                            !.message = "cannot retrieve the link of the file"]
    /\ UNCHANGED <<fsVars, mainVars, trav>>

\* step 4: the replay with the confirmation token
NegReplay ==
    /\ neg.state = "InterstitialSeen"
    /\ ~neg.fresh
    /\ \E r \in Responses :
         neg' = [neg EXCEPT !.requests = Append(@, ReplayRequest(neg)),
                            !.response = r, !.fresh = TRUE]
    /\ UNCHANGED <<fsVars, mainVars, trav>>

NegNext ==
    \/ NegRequest
    \/ NegInspect
    \/ NegReplay

\* one flow of control: a step that can be taken is taken
SpecNegotiate == NegInit /\ [][NegNext]_vars /\ WF_vars(NegNext)

(***************************************************************************)
(* Folder traversal (download_folder)                                      *)
(***************************************************************************)
\* the entries of the largest folder tree tried
MaxNodes == 4
\* the largest cap tried
MaxCap == 3

\* entry i of a tree lies in folder parent[i] (0: the folder traversed); a listing
\* gives the entries of a folder in increasing order
Trees(n) ==
    { t \in [parent : [1..n -> 0..(n - 1)], kind : [1..n -> {"File", "Folder"}]] :
        \A i \in 1..n :
            /\ t.parent[i] < i
            /\ t.parent[i] = 0 \/ t.kind[t.parent[i]] = "Folder" }

RECURSIVE ChildrenFrom(_, _, _)
ChildrenFrom(t, f, i) ==
    IF i > Len(t.parent) THEN << >>
    ELSE (IF t.parent[i] = f THEN <<i>> ELSE << >>) \o ChildrenFrom(t, f, i + 1)

\* the listing page of folder f: its immediate children
Listing(t, f) == ChildrenFrom(t, f, 1)

\* the chain of folders from the root to entry c
RECURSIVE PathTo(_, _)
PathTo(t, c) == IF t.parent[c] = 0 THEN << >> ELSE Append(PathTo(t, t.parent[c]), t.parent[c])

\* the cap checked against the entries of the folder being listed only
WouldExceedPerFolder(tr) ==
    LET top == tr.stack[Len(tr.stack)]
    IN  (Len(Listing(tr.tree, top.folder)) - Len(top.rest)) + 1 > tr.maxEntries

\* the running total, over the whole traversal, would exceed the cap
WouldExceed(tr) == tr.total + 1 > tr.maxEntries

RECURSIVE FileRequests(_, _)
FileRequests(t, nodes) ==
    IF nodes = << >> THEN << >>
    ELSE (IF t.kind[Head(nodes)] = "File"
          THEN << [file |-> Head(nodes), destination |-> PathTo(t, Head(nodes))] >>
          ELSE << >>) \o FileRequests(t, Tail(nodes))

TravInit ==
    /\ FsIdle
    /\ MainIdle
    /\ NegIdle
    /\ \E n \in 0..MaxNodes : \E t \in Trees(n) :
         \E cap \in 1..MaxCap : \E ok \in BOOLEAN :
            trav = [state |-> "start", tree |-> t, maxEntries |-> cap, remaining_ok |-> ok,
                    stack |-> << >>, total |-> 0, built |-> << >>, error |-> "",
                    emitted |-> << >>]

\* the listing page of the folder itself
TravStart ==
    /\ trav.state = "start"
    /\ trav' = [trav EXCEPT !.state = "listing",
                            !.stack = << [folder |-> 0, rest |-> Listing(trav.tree, 0)] >>]
    /\ UNCHANGED <<fsVars, mainVars, neg>>

\* the next child of the folder on top: counted, added to the tree, entered if a folder
TravVisit ==
    /\ trav.state = "listing"
    /\ trav.stack # << >>
    /\ LET d == Len(trav.stack)
           top == trav.stack[d]
       IN  /\ top.rest # << >>
           /\ LET c == Head(top.rest)
                  popped == [trav.stack EXCEPT ![d].rest = Tail(top.rest)]
              IN  trav' =
                    IF WouldExceed(trav)
                    THEN IF trav.remaining_ok
                         THEN [trav EXCEPT !.state = "built", !.stack = << >>]
                         ELSE [trav EXCEPT !.state = "failed",
                                           !.error = "FolderContentsMaximumLimitError"]
                    ELSE [trav EXCEPT
                            !.total = @ + 1,
                            !.built = Append(@, c),
                            !.stack = IF trav.tree.kind[c] = "Folder"
                                      THEN Append(popped, [folder |-> c,
                                                           rest |-> Listing(trav.tree, c)])
                                      ELSE popped]
    /\ UNCHANGED <<fsVars, mainVars, neg>>

\* the folder on top has no child left
TravReturn ==
    /\ trav.state = "listing"
    /\ trav.stack # << >>
    /\ trav.stack[Len(trav.stack)].rest = << >>
    /\ LET rest == SubSeq(trav.stack, 1, Len(trav.stack) - 1)
       IN  trav' = [trav EXCEPT !.stack = rest,
                                !.state = IF rest = << >> THEN "built" ELSE "listing"]
    /\ UNCHANGED <<fsVars, mainVars, neg>>

\* the tree walked in the same order: one transfer request per file
TravEmit ==
    /\ trav.state = "built"
    /\ trav' = [trav EXCEPT !.state = "done",
                            !.emitted = FileRequests(trav.tree, trav.built)]
    /\ UNCHANGED <<fsVars, mainVars, neg>>

TravNext ==
    \/ TravStart
    \/ TravVisit
    \/ TravReturn
    \/ TravEmit

SpecTraverse == TravInit /\ [][TravNext]_vars

(***************************************************************************)
(* Properties of file_size                                                 *)
(***************************************************************************)
IsDigits(s) == Len(s) >= 1 /\ \A i \in 1..Len(s) : s[i] \in Digits

Units == { <<"B">>, <<"K", "B">>, <<"M", "B">>, <<"G", "B">> }

\* s is <digits><unit> and nothing else
ExactFormAt(s, i) == IsDigits(SubSeq(s, 1, i)) /\ SubSeq(s, i + 1, Len(s)) \in Units
ExactForm(s) == \E i \in 1..Len(s) : ExactFormAt(s, i)
WrittenDigits(s) == SubSeq(s, 1, CHOOSE i \in 1..Len(s) : ExactFormAt(s, i))
WrittenUnit(s) == SubSeq(s, 1 + CHOOSE i \in 1..Len(s) : ExactFormAt(s, i), Len(s))

\* the power of 1024 a unit stands for
UnitPower(unit) == Len(unit) - 1 +
    (IF unit[1] = "M" THEN 1 ELSE 0) + (IF unit[1] = "G" THEN 2 ELSE 0)

\* the float x is d * 1024^k
IsScaled(x, d, k) ==
    IF d = 0 THEN x.mant = 0
    ELSE x.exp >= 10 * k /\ x.mant * 2^(x.exp - 10 * k) = d

\* C1: for every string <digits><unit> with unit B, KB, MB or GB, file_size returns
\* the decimal value of the digits times 1, 1024, 1024^2 or 1024^3, by the full
\* unit written
C1_FileSizeValue ==
    (fsPc = "done" /\ ExactForm(argv)) =>
        /\ fsOut.kind = "return"
        /\ fsOut.value # NoValue
        /\ IsScaled(fsOut.value, DecimalValue(WrittenDigits(argv)), UnitPower(WrittenUnit(argv)))

C1_Witness ==
    /\ fsPc = "done"
    /\ argv = <<"1", "7", "G", "B">>
    /\ fsOut = [kind |-> "return", value |-> [mant |-> 17, exp |-> 30]]

\* C5: file_size raises TypeError for every string that is not exactly digits
\* followed by one unit, and returns a size only for strings of that form
C5_TypeErrorUnlessExactForm ==
    (fsPc = "done" /\ argv # None) =>
        (fsOut = [kind |-> "raise", cls |-> "TypeError"] <=> ~ExactForm(argv))

(***************************************************************************)
(* Properties of main                                                      *)
(***************************************************************************)
StartsWith(s, prefix) == Len(s) >= Len(prefix) /\ SubSeq(s, 1, Len(prefix)) = prefix

LooksLikeUrl(s) ==
    \/ StartsWith(s, <<"h", "t", "t", "p", ":", "/", "/">>)
    \/ StartsWith(s, <<"h", "t", "t", "p", "s", ":", "/", "/">>)

Parsed == args # [none |-> TRUE]
Classified == Parsed /\ pc \in {"transfer", "except", "done"}
Called == Len(calls) >= 1
Raised(cls) == outcome.kind = "raise" /\ outcome.cls = cls

\* C2: the target is the id when --id is set, whatever it looks like; otherwise it is
\* the url when it starts with http:// or https:// and the id when it does not; the
\* other of url and id is None
C2_UrlOrId ==
    Classified =>
        /\ (url = None) # (id = None)
        /\ cli.id => (url = None /\ id = cli.url_or_id)
        /\ (~cli.id /\ LooksLikeUrl(cli.url_or_id)) => (url = cli.url_or_id /\ id = None)
        /\ (~cli.id /\ ~LooksLikeUrl(cli.url_or_id)) => (url = None /\ id = cli.url_or_id)

C2_Witness ==
    /\ pc = "transfer"
    /\ cli.id
    /\ LooksLikeUrl(cli.url_or_id)
    /\ id = cli.url_or_id
    /\ url = None

ErrorKinds == {"FileURLRetrievalError", "FolderContentsMaximumLimitError", "ProxyError"}

\* the heading main prints for each of the three kinds (none: the text alone)
KindHeading(cls) ==
    CASE cls = "FileURLRetrievalError" -> ""
      [] cls = "FolderContentsMaximumLimitError" -> "Failed to retrieve folder contents:"
      [] cls = "ProxyError" -> "Failed to use proxy:"

\* C3 as stated: no two of the three error kinds end the process with the same
\* exit code
C3_DistinctExitCodes ==
    \A cls \in ErrorKinds :
        (pc = "done" /\ Raised(cls)) =>
            \A other \in ErrorKinds \ {cls} :
                sysExit # <<ClauseExit(MatchingClause(other, 1))>>

\* C3 amended: success returns without exiting; each of the three error kinds is
\* reported with a message of its own, and all three exit with status 1
C3_DistinctMessagesSameExit ==
    (pc = "done" /\ Called) =>
        /\ outcome.kind = "return" => (sysExit = << >> /\ stderr = << >> /\ escaped = "")
        /\ \A cls \in ErrorKinds :
              Raised(cls) =>
                  /\ sysExit = <<1>>
                  /\ Len(stderr) = 1
                  /\ stderr[1].head = KindHeading(cls)
                  /\ stderr[1].text = outcome.msg
                  /\ \A other \in ErrorKinds \ {cls} : stderr[1].head # KindHeading(other)

C3_Witness ==
    /\ pc = "done"
    /\ Raised("FolderContentsMaximumLimitError")
    /\ sysExit = <<1>>
    /\ stderr[1].head = "Failed to retrieve folder contents:"

\* C4: the transfer is invoked at most once, and a ProxyError ends the run with the
\* proxy message, never with the generic one
C4_ProxyReportedNotRetried ==
    /\ Len(calls) <= 1
    /\ Raised("ProxyError") =>
          /\ \A i \in 1..Len(stderr) : stderr[i].head # "Error:"
          /\ pc = "done" =>
                /\ stderr = << [head |-> "Failed to use proxy:", text |-> outcome.msg,
                               wrapped |-> TRUE,
                               tail |-> "Please check your proxy settings."] >>
                /\ Len(sysExit) = 1

C4_Witness ==
    /\ pc = "done"
    /\ Raised("ProxyError")
    /\ Len(calls) = 1
    /\ calls[1].fn = "download"
    /\ stderr[1].head = "Failed to use proxy:"

\* C8: past argument parsing, exactly one transfer operation is invoked, once:
\* download_folder with --folder, download without, whatever url and id are
C8_OneTransferByFolderFlag ==
    /\ Len(calls) <= 1
    /\ (Parsed /\ pc \in {"except", "done"}) =>
          /\ Len(calls) = 1
          /\ calls[1].fn = (IF cli.folder THEN "download_folder" ELSE "download")

C8_Witness ==
    /\ pc = "done"
    /\ cli.folder
    /\ url # None
    /\ Len(calls) = 1
    /\ calls[1].fn = "download_folder"

\* the class of the clause that handles cls, in the order of the claim
ExpectedClause(cls) ==
    IF IsInstance(cls, "FileURLRetrievalError") THEN "FileURLRetrievalError"
    ELSE IF IsInstance(cls, "FolderContentsMaximumLimitError")
    THEN "FolderContentsMaximumLimitError"
    ELSE IF IsInstance(cls, "ProxyError") THEN "ProxyError"
    ELSE "Exception"

\* C9: an Exception raised by the transfer is handled by exactly one clause, the
\* first that matches; a message goes to standard error and the process exits with
\* a non-zero status; a transfer that returns makes main return without exiting
C9_NoFailureEscapes ==
    (pc = "done" /\ Called) =>
        /\ (outcome.kind = "raise" /\ IsInstance(outcome.cls, "Exception")) =>
              /\ Len(handlers) = 1
              /\ ExceptClauses[handlers[1]].catches = ExpectedClause(outcome.cls)
              /\ Len(stderr) = 1
              /\ Len(sysExit) = 1
              /\ sysExit[1] # 0
              /\ escaped = ""
        /\ outcome.kind = "return" =>
              (handlers = << >> /\ sysExit = << >> /\ stderr = << >> /\ escaped = "")

C9_Witness ==
    /\ pc = "done"
    /\ Raised("ConnectionError")
    /\ handlers = <<4>>
    /\ sysExit = <<1>>
    /\ stderr[1].head = "Error:"

\* C10: --fuzzy and --format change nothing in the call of download_folder,
\* --remaining-ok nothing in the call of download; proxy, speed, quiet, user agent,
\* use_cookies = not no-cookies, verify = not no-check-certificate and
\* resume = continue are passed in both modes
C10_OptionsByMode ==
    Called =>
        LET call == calls[1]
            kw == call.kwargs
        IN  /\ kw.proxy = cli.proxy
            /\ kw.speed = file_size(cli.speed).value
            /\ kw.quiet = cli.quiet
            /\ kw.user_agent = cli.user_agent
            /\ kw.use_cookies = ~cli.no_cookies
            /\ kw.verify = ~cli.no_check_certificate
            /\ kw.resume = cli.continue_
            /\ call.fn = "download_folder" =>
                  \A f \in BOOLEAN, fmt \in Formats :
                      LET twin == [args EXCEPT !.fuzzy = f, !.format = fmt]
                      IN  call = TransferCall(twin, Classification(twin).url,
                                              Classification(twin).id)
            /\ call.fn = "download" =>
                  \A r \in BOOLEAN :
                      LET twin == [args EXCEPT !.remaining_ok = r]
                      IN  call = TransferCall(twin, Classification(twin).url,
                                              Classification(twin).id)

C10_Witness ==
    /\ Called
    /\ calls[1].fn = "download_folder"
    /\ cli.fuzzy
    /\ cli.format = <<"pdf">>
    /\ cli.no_cookies
    /\ ~calls[1].kwargs.use_cookies

(***************************************************************************)
(* Properties of the confirmation negotiation                              *)
(***************************************************************************)
NegSettled == neg.state \in {"Resolved", "Failed"}

C6_Safety ==
    /\ neg.state \in {"Initial", "InterstitialSeen", "Resolved", "Failed"}
    /\ CountReplays(neg.requests) <= 1
    /\ Len(neg.requests) <= 2
    /\ neg.state = "InterstitialSeen" =>
          (Len(neg.seen) = 1 /\ ~neg.seen[1].disposition
             /\ neg.seen[1].contentType = "text/html" /\ neg.seen[1].page = "form")
    /\ neg.state = "Failed" => neg.error = "FileURLRetrievalError"
    /\ neg.state = "Resolved" => neg.error = ""
    \* a second page, after the replay, is a failure
    /\ (Len(neg.seen) = 2 /\ ~neg.seen[2].disposition /\ neg.seen[2].contentType = "text/html")
          => neg.state = "Failed"
    \* a quota page is a failure, and no request follows it
    /\ \A i \in 1..Len(neg.seen) :
          (~neg.seen[i].disposition /\ neg.seen[i].contentType = "text/html"
             /\ neg.seen[i].page = "quota") =>
                (neg.state = "Failed" /\ Len(neg.requests) = i /\ neg.message = "quota exceeded")

\* C6: the replay is issued at most once, a second page after it and a quota page
\* end in FileURLRetrievalError (the quota page without a replay), and the
\* negotiation reaches Resolved or Failed
C6_SingleReplay == [](C6_Safety) /\ <>(NegSettled)

C6_Witness ==
    /\ neg.state = "Failed"
    /\ CountReplays(neg.requests) = 1
    /\ Len(neg.seen) = 2
    /\ neg.seen[2].page = "form"
    /\ ~neg.seen[2].disposition
    /\ neg.seen[2].contentType = "text/html"

(***************************************************************************)
(* Properties of the folder traversal                                      *)
(***************************************************************************)
Entries == Len(trav.tree.parent)

====
